---- MODULE Spec2Model ----
(***************************************************************************)
(* pg-client-helper: the named-parameter transformer (transformQuery) and  *)
(* the connection / transaction lifecycle around it (queryMultiple, the    *)
(* result shapers, beginTransaction / commitTransaction /                  *)
(* rollbackTransaction).                                                   *)
(*                                                                         *)
(* Strings are sequences of one-character strings.  A named parameter set  *)
(* is the sequence of its [key, value] entries in Object.keys order.       *)
(***************************************************************************)
EXTENDS Integers, Sequences, FiniteSets, TLC

(***************************************************************************)
(* Bounds of the transformer's inputs.                                     *)
(***************************************************************************)
MaxQueryLen == 3
MaxTokens == 3
MaxKeys == 2
MaxArrLen == 2

\* the characters query strings are built from
Chars == {"$", "a", "b", "1"}

\* the pieces longer query strings are built from: the valid names and a
\* lone dollar sign
Tokens == { <<"$">>, <<"$", "a">>, <<"$", "a", "b">>, <<"$", "b">> }

\* the property names a named parameter set draws its keys from
KeyPool == { <<"$", "a">>, <<"$", "a", "b">>, <<"$", "b">>, <<"a">> }

DigitChars == <<"0", "1", "2", "3", "4", "5", "6", "7", "8", "9">>

Digits == {DigitChars[i] : i \in 1..10}

RECURSIVE SeqsUpTo(_, _)
SeqsUpTo(S, n) ==
  IF n = 0 THEN {<<>>}
  ELSE LET shorter == SeqsUpTo(S, n - 1)
       IN shorter \cup {Append(s, x) : s \in {t \in shorter : Len(t) = n - 1}, x \in S}

IsPrefix(p, s) == Len(p) <= Len(s) /\ \A j \in 1..Len(p) : s[j] = p[j]

(***************************************************************************)
(* Template literal `$${out_parameters.length}`: the decimal text of n     *)
(* after a dollar sign.                                                    *)
(***************************************************************************)
RECURSIVE NumberToString(_)
NumberToString(n) ==
  IF n < 10 THEN <<DigitChars[n + 1]>>
  ELSE NumberToString(n \div 10) \o <<DigitChars[(n % 10) + 1]>>

\* numbering from the length before the push
PlaceholderZeroBased(n) == <<"$">> \o NumberToString(n - 1)

Placeholder(n) == <<"$">> \o NumberToString(n)

(***************************************************************************)
(* key.replace(/\$/g, "\\$") followed by new RegExp(escapedKey, "g"): the  *)
(* key is compiled as a regular expression in which only the dollar sign   *)
(* has been escaped.  Each character of the key becomes one pattern        *)
(* element: "." matches any character, every other character of the       *)
(* alphabet matches itself.                                                *)
(***************************************************************************)
EscapeKey(key) ==
  [j \in 1..Len(key) |->
     IF key[j] = "." THEN [kind |-> "any", ch |-> "."]
     ELSE [kind |-> "lit", ch |-> key[j]]]

ElemMatches(e, c) == e.kind = "any" \/ e.ch = c

MatchAt(rx, s, i) ==
  /\ i + Len(rx) - 1 <= Len(s)
  /\ \A j \in 1..Len(rx) : ElemMatches(rx[j], s[i + j - 1])

\* the test left out
AlwaysMatches(rx, s) == TRUE

\* rxKey.test(out_query) on the freshly built expression (lastIndex 0)
RegexTest(rx, s) == \E i \in 1..Len(s) : MatchAt(rx, s, i)

(***************************************************************************)
(* out_query.replace(rxKey, replacement) with the g flag: the matches are  *)
(* found left to right, not overlapping, each replaced by the replacement  *)
(* text.  The expression has no capture groups, so "$1", "$2", ... in the  *)
(* replacement text are inserted literally.                                *)
(***************************************************************************)
RECURSIVE ReplaceFrom(_, _, _, _)
ReplaceFrom(rx, s, rep, i) ==
  IF i > Len(s) THEN <<>>
  ELSE IF MatchAt(rx, s, i) THEN rep \o ReplaceFrom(rx, s, rep, i + Len(rx))
  ELSE <<s[i]>> \o ReplaceFrom(rx, s, rep, i + 1)

\* the expression without the g flag: the first match only
RECURSIVE ReplaceFirstFrom(_, _, _, _)
ReplaceFirstFrom(rx, s, rep, i) ==
  IF i > Len(s) THEN <<>>
  ELSE IF MatchAt(rx, s, i) THEN rep \o SubSeq(s, i + Len(rx), Len(s))
  ELSE <<s[i]>> \o ReplaceFirstFrom(rx, s, rep, i + 1)

ReplaceFirstOnly(rx, s, rep) == ReplaceFirstFrom(rx, s, rep, 1)

RegexReplaceAll(rx, s, rep) == ReplaceFrom(rx, s, rep, 1)

(***************************************************************************)
(* keys.sort((a, b) => b.length - a.length): a stable sort, longest key    *)
(* first.                                                                  *)
(***************************************************************************)
RECURSIVE InsertByLength(_, _)
InsertByLength(sorted, e) ==
  IF sorted = <<>> THEN <<e>>
  ELSE IF Len(Head(sorted).key) >= Len(e.key)
       THEN <<Head(sorted)>> \o InsertByLength(Tail(sorted), e)
       ELSE <<e>> \o sorted

RECURSIVE SortLongestFirst(_)
SortLongestFirst(entries) ==
  IF entries = <<>> THEN <<>>
  ELSE InsertByLength(SortLongestFirst(SubSeq(entries, 1, Len(entries) - 1)),
                      entries[Len(entries)])

\* the sort left out: Object.keys order
UnsortedKeys(entries) == entries

SortKeys(entries) == SortLongestFirst(entries)

\* the name check left out
AnyName(key) == TRUE

\* key.startsWith("$")
StartsWithDollar(key) == Len(key) >= 1 /\ key[1] = "$"

\* the array handled as one value: a single placeholder
ConcatKeysSingle(base, k) == Placeholder(base + 1)

(***************************************************************************)
(* The array branch of the loop body: every item is pushed and its         *)
(* placeholder appended to concatKeys, separated by ", ".                  *)
(***************************************************************************)
RECURSIVE ConcatKeys(_, _)
ConcatKeys(base, k) ==
  IF k = 0 THEN <<>>
  ELSE ConcatKeys(base, k - 1)
         \o (IF k > 1 THEN <<",", " ">> ELSE <<>>)
         \o Placeholder(base + k)

(***************************************************************************)
(* for (const key of keys) { ... } of transformQuery, from the i-th key.   *)
(***************************************************************************)
RECURSIVE TransformLoop(_, _, _, _)
TransformLoop(keys, i, out_query, out_parameters) ==
  IF i > Len(keys)
  THEN [kind |-> "ok", query |-> out_query,
        params |-> [kind |-> "list", items |-> out_parameters]]
  ELSE LET key == keys[i].key
           val == keys[i].value
           rxKey == EscapeKey(key)
       IN IF ~StartsWithDollar(key)
          THEN [kind |-> "throw", error |-> "InvalidParameterName", key |-> key]
          ELSE IF ~RegexTest(rxKey, out_query)
          THEN TransformLoop(keys, i + 1, out_query, out_parameters)
          ELSE IF val.isArray
          THEN TransformLoop(keys, i + 1,
                 RegexReplaceAll(rxKey, out_query,
                                 ConcatKeys(Len(out_parameters), Len(val.items))),
                 out_parameters \o val.items)
          ELSE TransformLoop(keys, i + 1,
                 RegexReplaceAll(rxKey, out_query,
                                 Placeholder(Len(out_parameters) + 1)),
                 Append(out_parameters, val.item))

\* the Array.isArray test left out: a list goes through the loop with its
\* indices "0", "1", ... as keys
TransformQueryNoArrayCheck(q, p) ==
  IF p.kind = "absent"
  THEN [kind |-> "ok", query |-> q, params |-> p]
  ELSE IF p.kind = "list"
  THEN TransformLoop(
         SortLongestFirst([j \in 1..Len(p.items) |->
                             [key |-> NumberToString(j - 1),
                              value |-> [isArray |-> FALSE, item |-> p.items[j], items |-> <<>>]]]),
         1, q, <<>>)
  ELSE TransformLoop(SortLongestFirst(p.entries), 1, q, <<>>)

(***************************************************************************)
(* transformQuery(in_query, in_params)                                     *)
(***************************************************************************)
TransformQuery(q, p) ==
  IF p.kind \in {"absent", "list"}
  THEN [kind |-> "ok", query |-> q, params |-> p]
  ELSE TransformLoop(SortKeys(p.entries), 1, q, <<>>)

(***************************************************************************)
(* Inputs of the transformer.                                              *)
(***************************************************************************)
RECURSIVE Concat(_)
Concat(ts) == IF ts = <<>> THEN <<>> ELSE Head(ts) \o Concat(Tail(ts))

\* every string of up to MaxQueryLen characters, and every string of up to
\* MaxTokens tokens
Queries ==
  SeqsUpTo(Chars, MaxQueryLen) \cup {Concat(ts) : ts \in SeqsUpTo(Tokens, MaxTokens)}

\* the value supplied for a key: a scalar, the empty array, or an array of
\* MaxArrLen items; values are opaque to the code, so each is tagged with the
\* key it was supplied for and its position
ScalarValue(key) == [isArray |-> FALSE, item |-> <<key, 0>>, items |-> <<>>]

ArrayValue(key, k) ==
  [isArray |-> TRUE, item |-> <<key, 0>>, items |-> [j \in 1..k |-> <<key, j>>]]

ValuesFor(key) == {ScalarValue(key), ArrayValue(key, 0), ArrayValue(key, MaxArrLen)}

KeyLists ==
  {ks \in SeqsUpTo(KeyPool, MaxKeys) :
     \A a, b \in 1..Len(ks) : a # b => ks[a] # ks[b]}

EntriesOver(ks) ==
  {es \in [1..Len(ks) -> UNION {{[key |-> k, value |-> v] : v \in ValuesFor(k)} : k \in KeyPool}] :
     \A j \in 1..Len(ks) : es[j].key = ks[j]}

NamedParams == {[kind |-> "named", entries |-> es] : es \in UNION {EntriesOver(ks) : ks \in KeyLists}}

ListParams ==
  {[kind |-> "list", items |-> [j \in 1..k |-> <<"p", j>>]] : k \in 0..MaxArrLen}

AbsentParams == [kind |-> "absent"]

ParamInputs == NamedParams \cup ListParams \cup {AbsentParams}

(***************************************************************************)
(* Vocabulary of the claims about the transformer.                         *)
(*                                                                         *)
(* A named placeholder is a dollar sign followed by an identifier; a       *)
(* positional placeholder is a dollar sign followed by digits.             *)
(***************************************************************************)
IdentStartChars == {"a", "b", "_"}

IdentChars == IdentStartChars \cup Digits

IsNamedPlaceholder(key) ==
  /\ Len(key) >= 2
  /\ key[1] = "$"
  /\ key[2] \in IdentStartChars
  /\ \A j \in 3..Len(key) : key[j] \in IdentChars

KeysOf(p) == {p.entries[j].key : j \in 1..Len(p.entries)}

ValueOf(p, key) == (CHOOSE e \in {p.entries[j] : j \in 1..Len(p.entries)} : e.key = key).value

\* the items a value contributes to the parameter list, in order
ItemsOf(v) == IF v.isArray THEN v.items ELSE <<v.item>>

\* literal occurrence of the text t in s at position i
LitAt(t, s, i) ==
  /\ t # <<>>
  /\ i + Len(t) - 1 <= Len(s)
  /\ SubSeq(s, i, i + Len(t) - 1) = t

Occurs(t, s) == \E i \in 1..Len(s) : LitAt(t, s, i)

\* the key occurs at i, and no longer supplied key does
OwnOccAt(key, q, p, i) ==
  /\ LitAt(key, q, i)
  /\ \A k2 \in KeysOf(p) : Len(k2) > Len(key) => ~LitAt(k2, q, i)

OwnOccs(key, q, p) == {i \in 1..Len(q) : OwnOccAt(key, q, p, i)}

\* the maximal token that starts at the dollar sign at position i
RECURSIVE TokenEnd(_, _)
TokenEnd(s, j) ==
  IF j < Len(s) /\ s[j + 1] \in IdentChars THEN TokenEnd(s, j + 1) ELSE j

TokenAt(s, i) == SubSeq(s, i, TokenEnd(s, i))

(***************************************************************************)
(* Named style (spec 3, Data Model): the keys are named placeholders, the  *)
(* query holds no positional placeholder of its own, and a supplied key    *)
(* occurs in the query only as a whole token (no token collision).         *)
(***************************************************************************)
NamedStyle(q, p) ==
  /\ \A key \in KeysOf(p) : IsNamedPlaceholder(key)
  /\ \A i \in 1..Len(q) :
       q[i] = "$" =>
         /\ i < Len(q) => q[i + 1] \notin Digits
         /\ (\E key \in KeysOf(p) : IsPrefix(key, TokenAt(q, i)))
              => TokenAt(q, i) \in KeysOf(p)

\* value of the decimal digits d
RECURSIVE DigitsValue(_)
DigitsValue(d) ==
  IF d = <<>> THEN 0
  ELSE 10 * DigitsValue(SubSeq(d, 1, Len(d) - 1))
         + (CHOOSE n \in 0..9 : DigitChars[n + 1] = d[Len(d)])

RECURSIVE DigitsEnd(_, _)
DigitsEnd(s, j) ==
  IF j < Len(s) /\ s[j + 1] \in Digits THEN DigitsEnd(s, j + 1) ELSE j

\* the indices of the positional placeholders of s, left to right, each read
\* as the database client reads it: a dollar sign and all the digits after it
RECURSIVE PlaceholderSeqFrom(_, _)
PlaceholderSeqFrom(s, i) ==
  IF i > Len(s) THEN <<>>
  ELSE IF s[i] = "$" /\ DigitsEnd(s, i) > i
       THEN <<DigitsValue(SubSeq(s, i + 1, DigitsEnd(s, i)))>>
              \o PlaceholderSeqFrom(s, DigitsEnd(s, i) + 1)
       ELSE PlaceholderSeqFrom(s, i + 1)

PlaceholderSeq(s) == PlaceholderSeqFrom(s, 1)

PlaceholderIndices(s) == {PlaceholderSeq(s)[j] : j \in 1..Len(PlaceholderSeq(s))}

(***************************************************************************)
(* The connection pool, the query executor, the result shapers and the     *)
(* transaction functions.                                                  *)
(*                                                                         *)
(* The pool and its clients are the pg library's: pool.connect() resolves  *)
(* with a client that is not checked out (or waits for one) or rejects;    *)
(* client.query() resolves with rows or rejects; client.release() returns  *)
(* the client to the pool.  Every await is a point where other callers     *)
(* run; the code between two awaits is one step.                           *)
(***************************************************************************)
PoolSize == 2
MaxOps == 3

Procs == {"c1", "c2"}

\* the clients of the pool; NoClient is the undefined client argument
Handles == { <<"client", i>> : i \in 1..PoolSize }

NoClient == <<>>

ConnectError == "ConnectError"

QueryError == "QueryError"

\* the errors client.query() rejects with
QueryErrors == {QueryError}

NoReply == [kind |-> "none"]

\* (await client.query(...)) resolved with a result holding rows
RowsReply(rows) == [kind |-> "rows", rows |-> rows]

\* client.query(...) rejected with error
ErrorReply(error) == [kind |-> "error", error |-> error]

BEGIN == <<"B", "E", "G", "I", "N">>

COMMIT == <<"C", "O", "M", "M", "I", "T">>

ROLLBACK == <<"R", "O", "L", "L", "B", "A", "C", "K">>

QueryOps == {"queryMultiple", "query", "querySingle", "queryScalar"}

\* the (query, queryParams) arguments the callers pass
CallInputs ==
  { [query |-> <<"$", "a">>,
     params |-> [kind |-> "named",
                 entries |-> <<[key |-> <<"$", "a">>, value |-> ScalarValue(<<"$", "a">>)]>>]],
    [query |-> <<"$", "a">>,
     params |-> [kind |-> "named",
                 entries |-> <<[key |-> <<"a">>, value |-> ScalarValue(<<"a">>)]>>]],
    [query |-> <<"$", "1">>,
     params |-> [kind |-> "list", items |-> <<<<"p", 1>>>>]] }

\* the row lists a statement resolves with; a row is the sequence of its
\* columns in the order the client returns them
Row1 == <<[col |-> "name", val |-> "John"], [col |-> "age", val |-> "25"]>>

Row2 == <<[col |-> "zip", val |-> "null"], [col |-> "name", val |-> "Jane"]>>

RowsPool == { <<>>, <<Row2, Row1>> }

Undefined == [kind |-> "undefined"]

Null == [kind |-> "null"]

\* queryMultiple: return rows
ShapeMultiple(rows) == [kind |-> "rows", rows |-> rows]

\* query: the awaited rows are dropped
ShapeNone(rows) == Undefined

\* the last row in place of the first
ShapeLastRow(rows) ==
  IF rows = <<>> THEN Undefined ELSE [kind |-> "row", row |-> rows[Len(rows)]]

\* querySingle: return rows[0]
ShapeSingle(rows) == IF rows = <<>> THEN Undefined ELSE [kind |-> "row", row |-> rows[1]]

\* the last column in place of the first
ShapeScalarLastColumn(rows) ==
  IF rows = <<>> THEN Null
  ELSE IF rows[1] = <<>> THEN Undefined
  ELSE [kind |-> "value", val |-> rows[1][Len(rows[1])].val]

\* queryScalar: if (!row) return null; return row[Object.keys(row)[0]]
ShapeScalar(rows) ==
  LET row == ShapeSingle(rows)
  IN IF row = Undefined THEN Null
     ELSE IF row.row = <<>> THEN Undefined
     ELSE [kind |-> "value", val |-> row.row[1].val]

Shape(op, rows) ==
  CASE op = "queryMultiple" -> ShapeMultiple(rows)
    [] op = "query" -> ShapeNone(rows)
    [] op = "querySingle" -> ShapeSingle(rows)
    [] op = "queryScalar" -> ShapeScalar(rows)

Pending == [kind |-> "pending"]

Returned(v) == [kind |-> "returned", value |-> v]

Threw(e) == [kind |-> "threw", error |-> e]

\* the call a caller is in, or was last in; ended tells that the client
\* passed in is one an earlier commitTransaction or rollbackTransaction of
\* the caller has released
NewCall(op, input, clientArg) ==
  [op |-> op, input |-> input, clientArg |-> clientArg, ended |-> FALSE,
   client |-> clientArg, isClientCreatedHere |-> FALSE,
   connects |-> 0, releases |-> 0, dispatched |-> <<>>, reply |-> NoReply,
   outcome |-> Pending]

NoInput == [query |-> <<>>, params |-> AbsentParams]

NoCall == NewCall("none", NoInput, NoClient)

Statement(h, text, params) == [handle |-> h, text |-> text, params |-> params]

\* the condition of the finally block of the early version:
\* if (client) client.release()
ReleaseWheneverClient(isClientCreatedHere, client) == client # NoClient

\* the condition inverted
ReleaseWhenSupplied(isClientCreatedHere, client) ==
  ~isClientCreatedHere /\ client # NoClient

\* finally { if (isClientCreatedHere && client) client.release() }
ShouldRelease(isClientCreatedHere, client) ==
  isClientCreatedHere /\ client # NoClient

\* the call record and the pool after the finally block of queryMultiple
Finally(c) ==
  IF ShouldRelease(c.isClientCreatedHere, c.client)
  THEN [c EXCEPT !.releases = @ + 1]
  ELSE c

PoolAfterFinally(c, out) ==
  IF ShouldRelease(c.isClientCreatedHere, c.client) THEN out \ {c.client} ELSE out

\* the catch block with a substitute for the error
CatchAndWrap(c, error) == [c EXCEPT !.outcome = Threw("QueryExecutionFailed")]

\* the catch block sending ROLLBACK on the client
CatchAndRollback(c, error) ==
  [c EXCEPT !.outcome = Threw(error),
            !.dispatched = Append(@, Statement(c.client, ROLLBACK, AbsentParams))]

\* catch (error) { logger.error(...); logger.error(...); throw error; }
Catch(c, error) == [c EXCEPT !.outcome = Threw(error)]

\* the try block of queryMultiple up to the await of client.query(): the
\* transformer runs, and either throws or its result is sent on the client
\* named by c.client; used where the connect error is swallowed
DispatchAnyway(c, error) ==
  LET t == TransformQuery(c.input.query, c.input.params)
  IN IF t.kind = "throw"
     THEN [c EXCEPT !.outcome = Threw(t.error)]
     ELSE [c EXCEPT !.dispatched = Append(@, Statement(c.client, t.query, t.params)),
                    !.outcome = Threw("TypeError")]

\* try { client = await pool.connect(); }
\* catch (error) { logger.error(...); throw error; }
ConnectCatch(c, error) == [c EXCEPT !.outcome = Threw(error)]

\* the query and its params sent on the client as they were passed
DispatchUntransformed(c) ==
  [c EXCEPT !.dispatched = Append(@, Statement(c.client, c.input.query, c.input.params))]

\* the try block of queryMultiple up to the await of client.query(): the
\* transformer runs, and either throws (catch: log and rethrow) or its result
\* is sent on the client
TryDispatch(c) ==
  LET t == TransformQuery(c.input.query, c.input.params)
  IN IF t.kind = "throw"
     THEN Catch(c, t.error)
     ELSE [c EXCEPT !.dispatched = Append(@, Statement(c.client, t.query, t.params))]

(***************************************************************************)
(* The logger.  process.env.PG_CLIENT_HELPER_LOGLEVEL is a string or is    *)
(* not set; the console is the sequence of the calls made to its methods.  *)
(***************************************************************************)
MaxConsole == 2

EnvUnset == "<unset>"

\* the values the variable takes: the five levels, no value, and two values
\* that are no level
EnvValues == {EnvUnset, "DEBUG", "INFO", "WARN", "ERROR", "SILENT", "debug", "TRACE"}

LoggerMethods == {"log", "info", "warn", "error"}

\* the arguments of a logger call
LogArgs == { <<"msg">>, <<"msg", "detail">> }

\* logger.info("[PG] Creating connection pool") when the module is loaded
StartupArgs == <<"[PG] Creating connection pool">>

\* an unset or unknown value read as DEBUG
LogLevelDefaultDebug(v) ==
  IF v = "DEBUG" THEN 1
  ELSE IF v = "INFO" THEN 2
  ELSE IF v = "WARN" THEN 3
  ELSE IF v = "ERROR" THEN 4
  ELSE IF v = "SILENT" THEN 5
  ELSE 1

\* function logLevel()
LogLevel(v) ==
  IF v = "DEBUG" THEN 1
  ELSE IF v = "INFO" THEN 2
  ELSE IF v = "WARN" THEN 3
  ELSE IF v = "ERROR" THEN 4
  ELSE IF v = "SILENT" THEN 5
  ELSE 5

ConsoleCall(method, args) == [method |-> method, args |-> args]

\* log: (...args) => { if (logLevel() <= 1) console.log(...args) }
LoggerLog(con, v, args) ==
  IF LogLevel(v) <= 1 THEN Append(con, ConsoleCall("log", args)) ELSE con

\* info: (...args) => { if (logLevel() <= 2) console.info(...args) }
LoggerInfo(con, v, args) ==
  IF LogLevel(v) <= 2 THEN Append(con, ConsoleCall("info", args)) ELSE con

\* warn: (...args) => { if (logLevel() <= 3) console.warn(...args) }
LoggerWarn(con, v, args) ==
  IF LogLevel(v) <= 3 THEN Append(con, ConsoleCall("warn", args)) ELSE con

\* error: (...args) => { if (logLevel() <= 4) console.error(...args) }
LoggerError(con, v, args) ==
  IF LogLevel(v) <= 4 THEN Append(con, ConsoleCall("error", args)) ELSE con

\* the console after logger[method](...args) with the variable at v
Logger(method, con, v, args) ==
  CASE method = "log" -> LoggerLog(con, v, args)
    [] method = "info" -> LoggerInfo(con, v, args)
    [] method = "warn" -> LoggerWarn(con, v, args)
    [] method = "error" -> LoggerError(con, v, args)

\* the last call of the logger: its method and arguments, the value of the
\* variable when it was made and the console before it
LogCallRecord(method, args, v, before) ==
  [method |-> method, args |-> args, env |-> v, before |-> before]

VARIABLES in_query, in_params, pc, result,
          checkedOut, cpc, call, session, nops,
          PG_CLIENT_HELPER_LOGLEVEL, console, lastLog

tvars == <<in_query, in_params, pc, result>>

cvars == <<checkedOut, cpc, call, session, nops>>

lvars == <<PG_CLIENT_HELPER_LOGLEVEL, console, lastLog>>

vars == <<in_query, in_params, pc, result, checkedOut, cpc, call, session, nops,
          PG_CLIENT_HELPER_LOGLEVEL, console, lastLog>>

NoResult == [kind |-> "none"]

\* the module loaded with the variable at v: the logger has been called once
LInit(v) ==
  /\ PG_CLIENT_HELPER_LOGLEVEL = v
  /\ console = Logger("info", <<>>, v, StartupArgs)
  /\ lastLog = LogCallRecord("info", StartupArgs, v, <<>>)

\* the pool as constructed, no caller started
CInit ==
  /\ checkedOut = {}
  /\ cpc = [p \in Procs |-> "idle"]
  /\ call = [p \in Procs |-> NoCall]
  /\ session = [p \in Procs |-> NoClient]
  /\ nops = 0

(***************************************************************************)
(* The transformer alone: a call of transformQuery on any input.           *)
(***************************************************************************)
TInit ==
  /\ in_query \in Queries
  /\ in_params \in ParamInputs
  /\ pc = "start"
  /\ result = NoResult
  /\ CInit
  /\ LInit(EnvUnset)

Call ==
  /\ pc = "start"
  /\ result' = TransformQuery(in_query, in_params)
  /\ pc' = "done"
  /\ UNCHANGED <<in_query, in_params>>
  /\ UNCHANGED cvars
  /\ UNCHANGED lvars

TNext == Call

SpecTransform == TInit /\ [][TNext]_vars

(***************************************************************************)
(* The transformer on names that hold a character special to RegExp: the   *)
(* dot.  The query may hold dots too.                                      *)
(***************************************************************************)
PatternKeyPool == { <<"$", ".">>, <<"$", "a", ".">>, <<"$", "a">> }

PatternQueries == SeqsUpTo(Chars \cup {"."}, MaxQueryLen)

\* the named parameter sets of one key
PatternParams ==
  UNION {{[kind |-> "named", entries |-> <<[key |-> k, value |-> v]>>] : v \in ValuesFor(k)} :
           k \in PatternKeyPool}

PatternInit ==
  /\ in_query \in PatternQueries
  /\ in_params \in PatternParams
  /\ pc = "start"
  /\ result = NoResult
  /\ CInit
  /\ LInit(EnvUnset)

SpecPattern == PatternInit /\ [][TNext]_vars

(***************************************************************************)
(* The executor and the transactions, with concurrent callers.             *)
(***************************************************************************)
Init ==
  /\ in_query = <<>>
  /\ in_params = AbsentParams
  /\ pc = "unused"
  /\ result = NoResult
  /\ CInit
  /\ LInit(EnvUnset)

\* the synchronous continuation of queryMultiple once it has a client
AfterClient(p, c, out) ==
  LET d == TryDispatch(c)
  IN IF d.outcome = Pending
     THEN /\ call' = [call EXCEPT ![p] = d]
          /\ cpc' = [cpc EXCEPT ![p] = "querying"]
          /\ checkedOut' = out
     ELSE /\ call' = [call EXCEPT ![p] = Finally(d)]
          /\ cpc' = [cpc EXCEPT ![p] = "idle"]
          /\ checkedOut' = PoolAfterFinally(d, out)

\* queryMultiple / query / querySingle / queryScalar called without a client:
\* up to await pool.connect()
CallQuery(p, op, input) ==
  /\ cpc[p] = "idle" /\ nops < MaxOps
  /\ call' = [call EXCEPT ![p] = [NewCall(op, input, NoClient) EXCEPT !.isClientCreatedHere = TRUE]]
  /\ cpc' = [cpc EXCEPT ![p] = "connecting"]
  /\ nops' = nops + 1
  /\ UNCHANGED <<checkedOut, session>>
  /\ UNCHANGED tvars
  /\ UNCHANGED lvars

\* pool.connect() resolves with client h
ConnectResolve(p, h) ==
  /\ cpc[p] = "connecting" /\ h \notin checkedOut
  /\ AfterClient(p, [call[p] EXCEPT !.client = h, !.connects = @ + 1], checkedOut \cup {h})
  /\ UNCHANGED <<session, nops>>
  /\ UNCHANGED tvars
  /\ UNCHANGED lvars

\* pool.connect() rejects: the error is logged and thrown again
ConnectReject(p) ==
  /\ cpc[p] = "connecting"
  /\ call' = [call EXCEPT ![p] = ConnectCatch(call[p], ConnectError)]
  /\ cpc' = [cpc EXCEPT ![p] = "idle"]
  /\ UNCHANGED <<checkedOut, session, nops>>
  /\ UNCHANGED tvars
  /\ UNCHANGED lvars

\* a query function called with the client of the caller's transaction
CallQueryWithClient(p, op, input) ==
  /\ cpc[p] = "idle" /\ nops < MaxOps
  /\ session[p] # NoClient
  /\ AfterClient(p, NewCall(op, input, session[p]), checkedOut)
  /\ nops' = nops + 1
  /\ UNCHANGED session
  /\ UNCHANGED tvars
  /\ UNCHANGED lvars

\* client.query() resolves: return rows, then the finally block
QueryResolve(p, rows) ==
  /\ cpc[p] = "querying"
  /\ call' = [call EXCEPT ![p] =
                Finally([call[p] EXCEPT !.reply = RowsReply(rows),
                                        !.outcome = Returned(Shape(call[p].op, rows))])]
  /\ checkedOut' = PoolAfterFinally(call[p], checkedOut)
  /\ cpc' = [cpc EXCEPT ![p] = "idle"]
  /\ UNCHANGED <<session, nops>>
  /\ UNCHANGED tvars
  /\ UNCHANGED lvars

\* client.query() rejects: catch (log, throw error), then the finally block
QueryReject(p, error) ==
  /\ cpc[p] = "querying"
  /\ call' = [call EXCEPT ![p] =
                Finally(Catch([call[p] EXCEPT !.reply = ErrorReply(error)], error))]
  /\ checkedOut' = PoolAfterFinally(call[p], checkedOut)
  /\ cpc' = [cpc EXCEPT ![p] = "idle"]
  /\ UNCHANGED <<session, nops>>
  /\ UNCHANGED tvars
  /\ UNCHANGED lvars

\* beginTransaction: up to await pool.connect()
BeginTransaction(p) ==
  /\ cpc[p] = "idle" /\ nops < MaxOps
  /\ session[p] = NoClient
  /\ call' = [call EXCEPT ![p] = NewCall("beginTransaction", NoInput, NoClient)]
  /\ cpc' = [cpc EXCEPT ![p] = "begin_connecting"]
  /\ nops' = nops + 1
  /\ UNCHANGED <<checkedOut, session>>
  /\ UNCHANGED tvars
  /\ UNCHANGED lvars

\* pool.connect() resolves; client.query("BEGIN") is sent
BeginConnectResolve(p, h) ==
  /\ cpc[p] = "begin_connecting" /\ h \notin checkedOut
  /\ checkedOut' = checkedOut \cup {h}
  /\ call' = [call EXCEPT ![p].client = h, ![p].connects = @ + 1,
                          ![p].dispatched = Append(@, Statement(h, BEGIN, AbsentParams))]
  /\ cpc' = [cpc EXCEPT ![p] = "begin_query"]
  /\ UNCHANGED <<session, nops>>
  /\ UNCHANGED tvars
  /\ UNCHANGED lvars

BeginConnectReject(p) ==
  /\ cpc[p] = "begin_connecting"
  /\ call' = [call EXCEPT ![p].outcome = Threw(ConnectError)]
  /\ cpc' = [cpc EXCEPT ![p] = "idle"]
  /\ UNCHANGED <<checkedOut, session, nops>>
  /\ UNCHANGED tvars
  /\ UNCHANGED lvars

\* BEGIN resolves: return client
BeginResolve(p) ==
  /\ cpc[p] = "begin_query"
  /\ call' = [call EXCEPT ![p].outcome = Returned([kind |-> "client", client |-> call[p].client])]
  /\ session' = [session EXCEPT ![p] = call[p].client]
  /\ cpc' = [cpc EXCEPT ![p] = "idle"]
  /\ UNCHANGED <<checkedOut, nops>>
  /\ UNCHANGED tvars
  /\ UNCHANGED lvars

\* BEGIN rejects: the await throws out of beginTransaction
BeginReject(p) ==
  /\ cpc[p] = "begin_query"
  /\ call' = [call EXCEPT ![p].reply = ErrorReply(QueryError), ![p].outcome = Threw(QueryError)]
  /\ cpc' = [cpc EXCEPT ![p] = "idle"]
  /\ UNCHANGED <<checkedOut, session, nops>>
  /\ UNCHANGED tvars
  /\ UNCHANGED lvars

\* commitTransaction(client): client.query("COMMIT") is sent
CommitTransaction(p) ==
  /\ cpc[p] = "idle" /\ nops < MaxOps
  /\ session[p] # NoClient
  /\ call' = [call EXCEPT ![p] =
                [NewCall("commitTransaction", NoInput, session[p])
                   EXCEPT !.dispatched = <<Statement(session[p], COMMIT, AbsentParams)>>]]
  /\ cpc' = [cpc EXCEPT ![p] = "end_query"]
  /\ nops' = nops + 1
  /\ UNCHANGED <<checkedOut, session>>
  /\ UNCHANGED tvars
  /\ UNCHANGED lvars

\* rollbackTransaction(client): client.query("ROLLBACK") is sent
RollbackTransaction(p) ==
  /\ cpc[p] = "idle" /\ nops < MaxOps
  /\ session[p] # NoClient
  /\ call' = [call EXCEPT ![p] =
                [NewCall("rollbackTransaction", NoInput, session[p])
                   EXCEPT !.dispatched = <<Statement(session[p], ROLLBACK, AbsentParams)>>]]
  /\ cpc' = [cpc EXCEPT ![p] = "end_query"]
  /\ nops' = nops + 1
  /\ UNCHANGED <<checkedOut, session>>
  /\ UNCHANGED tvars
  /\ UNCHANGED lvars

\* commitTransaction / rollbackTransaction without client.release()
EndResolveNoRelease(p) ==
  /\ cpc[p] = "end_query"
  /\ call' = [call EXCEPT ![p].outcome = Returned(Undefined)]
  /\ session' = [session EXCEPT ![p] = NoClient]
  /\ cpc' = [cpc EXCEPT ![p] = "idle"]
  /\ UNCHANGED <<checkedOut, nops>>
  /\ UNCHANGED tvars
  /\ UNCHANGED lvars

\* COMMIT / ROLLBACK resolves: client.release()
EndResolve(p) ==
  /\ cpc[p] = "end_query"
  /\ call' = [call EXCEPT ![p].releases = @ + 1, ![p].outcome = Returned(Undefined)]
  /\ checkedOut' = checkedOut \ {call[p].client}
  /\ session' = [session EXCEPT ![p] = NoClient]
  /\ cpc' = [cpc EXCEPT ![p] = "idle"]
  /\ UNCHANGED nops
  /\ UNCHANGED tvars
  /\ UNCHANGED lvars

\* COMMIT / ROLLBACK rejects: the await throws, client.release() is not reached
EndReject(p) ==
  /\ cpc[p] = "end_query"
  /\ call' = [call EXCEPT ![p].reply = ErrorReply(QueryError), ![p].outcome = Threw(QueryError)]
  /\ cpc' = [cpc EXCEPT ![p] = "idle"]
  /\ UNCHANGED <<checkedOut, session, nops>>
  /\ UNCHANGED tvars
  /\ UNCHANGED lvars

Next ==
  \/ \E p \in Procs, op \in QueryOps, input \in CallInputs : CallQuery(p, op, input)
  \/ \E p \in Procs, h \in Handles : ConnectResolve(p, h)
  \/ \E p \in Procs : ConnectReject(p)
  \/ \E p \in Procs, op \in QueryOps, input \in CallInputs : CallQueryWithClient(p, op, input)
  \/ \E p \in Procs, rows \in RowsPool : QueryResolve(p, rows)
  \/ \E p \in Procs, error \in QueryErrors : QueryReject(p, error)
  \/ \E p \in Procs : BeginTransaction(p)
  \/ \E p \in Procs, h \in Handles : BeginConnectResolve(p, h)
  \/ \E p \in Procs : BeginConnectReject(p)
  \/ \E p \in Procs : BeginResolve(p)
  \/ \E p \in Procs : BeginReject(p)
  \/ \E p \in Procs : CommitTransaction(p)
  \/ \E p \in Procs : RollbackTransaction(p)
  \/ \E p \in Procs : EndResolve(p)
  \/ \E p \in Procs : EndReject(p)

Spec == Init /\ [][Next]_vars

\* callers whose BEGIN, COMMIT and ROLLBACK statements all succeed: every
\* transaction is opened by a beginTransaction that returns its client and
\* closed by one commitTransaction or rollbackTransaction that returns
WellFormedNext ==
  \/ \E p \in Procs, op \in QueryOps, input \in CallInputs : CallQuery(p, op, input)
  \/ \E p \in Procs, h \in Handles : ConnectResolve(p, h)
  \/ \E p \in Procs : ConnectReject(p)
  \/ \E p \in Procs, op \in QueryOps, input \in CallInputs : CallQueryWithClient(p, op, input)
  \/ \E p \in Procs, rows \in RowsPool : QueryResolve(p, rows)
  \/ \E p \in Procs, error \in QueryErrors : QueryReject(p, error)
  \/ \E p \in Procs : BeginTransaction(p)
  \/ \E p \in Procs, h \in Handles : BeginConnectResolve(p, h)
  \/ \E p \in Procs : BeginConnectReject(p)
  \/ \E p \in Procs : BeginResolve(p)
  \/ \E p \in Procs : CommitTransaction(p)
  \/ \E p \in Procs : RollbackTransaction(p)
  \/ \E p \in Procs : EndResolve(p)

SpecWellFormed == Init /\ [][WellFormedNext]_vars

(***************************************************************************)
(* Callers that go on using the client of a transaction after its          *)
(* commitTransaction or rollbackTransaction has returned.  The functions   *)
(* are the same code: they keep no record of the transactions ended.       *)
(***************************************************************************)
\* the caller's last call left it holding a client that has been released
HoldsEndedClient(p) ==
  /\ cpc[p] = "idle"
  /\ call[p].outcome # Pending
  /\ call[p].clientArg # NoClient
  /\ \/ call[p].ended
     \/ call[p].op \in {"commitTransaction", "rollbackTransaction"}
          /\ call[p].outcome.kind = "returned"

\* a query function called with the released client
ReuseInQuery(p, op, input) ==
  /\ HoldsEndedClient(p) /\ nops < MaxOps
  /\ AfterClient(p, [NewCall(op, input, call[p].clientArg) EXCEPT !.ended = TRUE], checkedOut)
  /\ nops' = nops + 1
  /\ UNCHANGED session
  /\ UNCHANGED tvars
  /\ UNCHANGED lvars

\* commitTransaction / rollbackTransaction called with the released client:
\* client.query("COMMIT" / "ROLLBACK") is sent
ReuseInEnd(p, op) ==
  /\ HoldsEndedClient(p) /\ nops < MaxOps
  /\ call' = [call EXCEPT ![p] =
                [NewCall(op, NoInput, call[p].clientArg)
                   EXCEPT !.ended = TRUE,
                          !.dispatched = <<Statement(call[p].clientArg,
                                                     IF op = "commitTransaction" THEN COMMIT ELSE ROLLBACK,
                                                     AbsentParams)>>]]
  /\ cpc' = [cpc EXCEPT ![p] = "reuse_end_query"]
  /\ nops' = nops + 1
  /\ UNCHANGED <<checkedOut, session>>
  /\ UNCHANGED tvars
  /\ UNCHANGED lvars

\* the statement resolves and client.release() is called a second time; the
\* pool either throws on it or takes the client back from whoever holds it
ReuseEndResolve(p, releaseThrows) ==
  /\ cpc[p] = "reuse_end_query"
  /\ call' = [call EXCEPT ![p].releases = @ + 1,
                          ![p].reply = RowsReply(<<>>),
                          ![p].outcome = IF releaseThrows THEN Threw("ReleaseError")
                                         ELSE Returned(Undefined)]
  /\ checkedOut' = IF releaseThrows THEN checkedOut ELSE checkedOut \ {call[p].client}
  /\ cpc' = [cpc EXCEPT ![p] = "idle"]
  /\ UNCHANGED <<session, nops>>
  /\ UNCHANGED tvars
  /\ UNCHANGED lvars

\* the statement rejects: the await throws
ReuseEndReject(p) ==
  /\ cpc[p] = "reuse_end_query"
  /\ call' = [call EXCEPT ![p].reply = ErrorReply(QueryError), ![p].outcome = Threw(QueryError)]
  /\ cpc' = [cpc EXCEPT ![p] = "idle"]
  /\ UNCHANGED <<checkedOut, session, nops>>
  /\ UNCHANGED tvars
  /\ UNCHANGED lvars

ReuseNext ==
  \/ Next
  \/ \E p \in Procs, op \in QueryOps, input \in CallInputs : ReuseInQuery(p, op, input)
  \/ \E p \in Procs, op \in {"commitTransaction", "rollbackTransaction"} : ReuseInEnd(p, op)
  \/ \E p \in Procs, releaseThrows \in BOOLEAN : ReuseEndResolve(p, releaseThrows)
  \/ \E p \in Procs : ReuseEndReject(p)

SpecReuse == Init /\ [][ReuseNext]_vars

(***************************************************************************)
(* The logger alone: the application sets the variable and calls the       *)
(* logger.                                                                 *)
(***************************************************************************)
LoggerInit ==
  /\ in_query = <<>>
  /\ in_params = AbsentParams
  /\ pc = "unused"
  /\ result = NoResult
  /\ CInit
  /\ \E v \in EnvValues : LInit(v)

\* process.env.PG_CLIENT_HELPER_LOGLEVEL = v, or delete it
SetLogLevel(v) ==
  /\ PG_CLIENT_HELPER_LOGLEVEL' = v
  /\ UNCHANGED <<console, lastLog>>
  /\ UNCHANGED tvars
  /\ UNCHANGED cvars

\* logger.log / info / warn / error (...args)
LogCall(method, args) ==
  /\ Len(console) < MaxConsole
  /\ console' = Logger(method, console, PG_CLIENT_HELPER_LOGLEVEL, args)
  /\ lastLog' = LogCallRecord(method, args, PG_CLIENT_HELPER_LOGLEVEL, console)
  /\ UNCHANGED PG_CLIENT_HELPER_LOGLEVEL
  /\ UNCHANGED tvars
  /\ UNCHANGED cvars

LoggerNext ==
  \/ \E v \in EnvValues : SetLogLevel(v)
  \/ \E method \in LoggerMethods, args \in LogArgs : LogCall(method, args)

SpecLogger == LoggerInit /\ [][LoggerNext]_vars

(***************************************************************************)
(* The claims about transformQuery, checked under SpecTransform.           *)
(***************************************************************************)
Done == pc = "done"

Named == in_params.kind = "named"

Ok == result.kind = "ok"

Items == result.params.items

\* the text of the positional placeholder with index n
RECURSIVE DecimalText(_)
DecimalText(n) ==
  IF n < 10 THEN <<DigitChars[n + 1]>>
  ELSE DecimalText(n \div 10) \o <<DigitChars[(n % 10) + 1]>>

PositionalText(n) == <<"$">> \o DecimalText(n)

\* "$m+1, $m+2, ..., $m+k"
RECURSIVE PositionalList(_, _)
PositionalList(m, k) ==
  IF k = 0 THEN <<>>
  ELSE IF k = 1 THEN PositionalText(m + 1)
  ELSE PositionalList(m, k - 1) \o <<",", " ">> \o PositionalText(m + k)

\* the indices of the returned list that hold a value supplied for key
IndicesOf(key, items) == {i \in 1..Len(items) : items[i][1] = key}

Min(S) == CHOOSE x \in S : \A y \in S : x <= y

\* the placeholder text that refers to the values of key in the returned list
TextOf(key, items) ==
  LET idx == IndicesOf(key, items)
  IN IF idx = {} THEN <<>> ELSE PositionalList(Min(idx) - 1, Cardinality(idx))

CountLit(t, s) == Cardinality({i \in 1..Len(s) : LitAt(t, s, i)})

HasDollarPrefix(key) == key # <<>> /\ Head(key) = "$"

\* the returned list holds the value supplied for key, whole and in order, at
\* consecutive indices, and nowhere else
HoldsValueOf(key, p, items) ==
  LET v == ItemsOf(ValueOf(p, key))
      idx == IndicesOf(key, items)
  IN /\ Cardinality(idx) = Len(v)
     /\ idx # {} => \A j \in 1..Len(v) : /\ Min(idx) + j - 1 \in idx
                                         /\ items[Min(idx) + j - 1] = v[j]

\* C1, as stated: over every query string and every named parameter set
C1_Original ==
  (Done /\ Named /\ Ok) => PlaceholderIndices(result.query) = 1..Len(Items)

\* C1 (amended): for every named parameter set whose keys are named
\* placeholders and every query in named style (no positional placeholder of
\* its own, supplied keys occurring only as whole tokens), the positional
\* placeholders of the rewritten query are exactly $1..$N, N the length of the
\* returned parameter list.
C1_PlaceholdersContiguous ==
  (Done /\ Named /\ Ok /\ NamedStyle(in_query, in_params))
    => /\ PlaceholderIndices(result.query) = 1..Len(Items)
       /\ Cardinality(PlaceholderIndices(result.query)) = Len(Items)

C1_Witness ==
  /\ Done /\ Named /\ Ok /\ NamedStyle(in_query, in_params)
  /\ Len(Items) >= 2
  /\ Len(PlaceholderSeq(result.query)) > Len(Items)

\* C2: when a supplied key is a prefix of a longer supplied key and both occur
\* in the query, the longer key's value gets the lower indices, every
\* occurrence of the longer key has become the longer key's placeholder text
\* and none is left (none was rewritten in part by the shorter key).
C2_LongestFirst ==
  (Done /\ Named /\ Ok) =>
    \A S \in KeysOf(in_params), L \in KeysOf(in_params) :
      ( /\ S # L /\ IsPrefix(S, L)
        /\ Occurs(L, in_query)
        /\ OwnOccs(S, in_query, in_params) # {} )
      => /\ HoldsValueOf(L, in_params, Items)
         /\ HoldsValueOf(S, in_params, Items)
         /\ \A a \in IndicesOf(L, Items), b \in IndicesOf(S, Items) : a < b
         /\ ~Occurs(L, result.query)
         /\ TextOf(L, Items) # <<>> =>
              CountLit(TextOf(L, Items), result.query) >= CountLit(L, in_query)

C2_Witness ==
  /\ Done /\ Named /\ Ok
  /\ \E S \in KeysOf(in_params), L \in KeysOf(in_params) :
       /\ S # L /\ IsPrefix(S, L)
       /\ Occurs(L, in_query)
       /\ OwnOccs(S, in_query, in_params) # {}
       /\ in_params.entries[1].key = S
       /\ IndicesOf(L, Items) # {} /\ IndicesOf(S, Items) # {}

\* position of key in Object.keys order
EntryIndex(p, key) == CHOOSE j \in 1..Len(p.entries) : p.entries[j].key = key

\* k2 is processed before key: it is longer, or as long and earlier
Precedes(p, k2, key) ==
  \/ Len(k2) > Len(key)
  \/ Len(k2) = Len(key) /\ EntryIndex(p, k2) < EntryIndex(p, key)

RECURSIVE SumSizes(_, _)
SumSizes(p, ks) ==
  IF ks = {} THEN 0
  ELSE LET k == CHOOSE k \in ks : TRUE
       IN Len(ItemsOf(ValueOf(p, k))) + SumSizes(p, ks \ {k})

\* the length of the parameter list when key's turn comes: the values of the
\* keys that occur in the query and are processed before it
ListLengthBefore(q, p, key) ==
  SumSizes(p, {k2 \in KeysOf(p) \ {key} : Precedes(p, k2, key) /\ OwnOccs(k2, q, p) # {}})

\* C3: a key whose value is an array of k items and which occurs in the query
\* has its k items appended in order at indices m+1..m+k, m the length of the
\* list before the key was processed, and each of its occurrences has become
\* "$m+1, ..., $m+k"; scalar-valued keys may be in the same set.  In a query
\* of named style no occurrence of the key is left.
C3_ArraySpread ==
  (Done /\ Named /\ Ok) =>
    \A K \in KeysOf(in_params) :
      (ValueOf(in_params, K).isArray /\ OwnOccs(K, in_query, in_params) # {}) =>
        LET k == Len(ValueOf(in_params, K).items)
            m == ListLengthBefore(in_query, in_params, K)
        IN /\ m + k <= Len(Items)
           /\ \A j \in 1..k : Items[m + j] = ValueOf(in_params, K).items[j]
           /\ IndicesOf(K, Items) = (m + 1)..(m + k)
           /\ k > 0 => CountLit(PositionalList(m, k), result.query)
                          >= Cardinality(OwnOccs(K, in_query, in_params))
           /\ NamedStyle(in_query, in_params) => ~Occurs(K, result.query)

C3_Witness ==
  /\ Done /\ Named /\ Ok
  /\ \E K \in KeysOf(in_params), K2 \in KeysOf(in_params) :
       /\ ValueOf(in_params, K).isArray
       /\ Len(ValueOf(in_params, K).items) = 2
       /\ OwnOccs(K, in_query, in_params) # {}
       /\ ~ValueOf(in_params, K2).isArray
       /\ IndicesOf(K2, Items) = {1}
       /\ IndicesOf(K, Items) = {2, 3}

\* the rewritten query expected of q: every occurrence of a key, read left to
\* right with the longest key first, replaced by the placeholders of the
\* indices that hold the key's value; everything else kept
RECURSIVE OnePassFrom(_, _, _, _)
OnePassFrom(q, p, items, i) ==
  IF i > Len(q) THEN <<>>
  ELSE LET ks == {K \in KeysOf(p) : OwnOccAt(K, q, p, i)}
       IN IF ks = {} THEN <<q[i]>> \o OnePassFrom(q, p, items, i + 1)
          ELSE LET K == CHOOSE K \in ks : TRUE
               IN TextOf(K, items) \o OnePassFrom(q, p, items, i + Len(K))

\* the placeholder indices expected in the rewritten query, left to right: those
\* of each replaced occurrence, and those the query already held
RECURSIVE ExpectedSeqFrom(_, _, _, _)
ExpectedSeqFrom(q, p, items, i) ==
  IF i > Len(q) THEN <<>>
  ELSE LET ks == {K \in KeysOf(p) : OwnOccAt(K, q, p, i)}
       IN IF ks # {}
          THEN LET K == CHOOSE K \in ks : TRUE
                   idx == IndicesOf(K, items)
               IN [j \in 1..Cardinality(idx) |-> Min(idx) + j - 1]
                    \o ExpectedSeqFrom(q, p, items, i + Len(K))
          ELSE IF q[i] = "$" /\ DigitsEnd(q, i) > i
          THEN <<DigitsValue(SubSeq(q, i + 1, DigitsEnd(q, i)))>>
                 \o ExpectedSeqFrom(q, p, items, DigitsEnd(q, i) + 1)
          ELSE ExpectedSeqFrom(q, p, items, i + 1)

\* every value of the returned list is the value of a key that occurs in the
\* query; the value of every key that occurs is in the list; the rewritten
\* query is the input with every occurrence replaced by the placeholders of
\* its key's value, and the database client reads them as such
C4_Body ==
  /\ \A i \in 1..Len(Items) :
       /\ Items[i][1] \in KeysOf(in_params)
       /\ OwnOccs(Items[i][1], in_query, in_params) # {}
  /\ \A K \in KeysOf(in_params) :
       OwnOccs(K, in_query, in_params) # {} => HoldsValueOf(K, in_params, Items)
  /\ result.query = OnePassFrom(in_query, in_params, Items, 1)
  /\ PlaceholderSeq(result.query) = ExpectedSeqFrom(in_query, in_params, Items, 1)

\* C4, as stated: over every query and named parameter set
C4_Original == (Done /\ Named /\ Ok) => C4_Body

\* C4 (amended): for a query in named style, every occurrence of a supplied
\* key (all of them) has become the positional placeholder(s) $i whose i-th
\* element of the returned list is the value supplied for that key (for an
\* array, its elements in order); no occurrence of a supplied key is left, the
\* rest of the query is unchanged and every placeholder refers to the value of
\* the key it replaced.
C4_EveryOccurrenceReplaced ==
  (Done /\ Named /\ Ok /\ NamedStyle(in_query, in_params)) =>
    /\ C4_Body
    /\ \A K \in KeysOf(in_params) : ~Occurs(K, result.query)

C4_Witness ==
  /\ Done /\ Named /\ Ok /\ NamedStyle(in_query, in_params)
  /\ \E K \in KeysOf(in_params) :
       /\ Cardinality(OwnOccs(K, in_query, in_params)) >= 2
       /\ Cardinality(IndicesOf(K, Items)) = 2
  /\ Len(PlaceholderSeq(result.query)) = 4

\* the parameter set without key
Without(p, key) ==
  [kind |-> "named", entries |-> SelectSeq(p.entries, LAMBDA e : e.key # key)]

\* a supplied key K (starting with a dollar sign) that does not occur in the
\* query is skipped: no error is raised on its account, its value is not in
\* the returned list, and the result is the one obtained without the key (the
\* same query, the same indices for the keys that are used)
Skipped(K) ==
  /\ result = TransformQuery(in_query, Without(in_params, K))
  /\ result.kind = "throw" => result.key # K
  /\ Ok => IndicesOf(K, Items) = {}

\* C5, as stated: every supplied key that does not occur in the query text
\* is skipped.
C5_Original ==
  (Done /\ Named) =>
    \A K \in KeysOf(in_params) :
      (HasDollarPrefix(K) /\ ~Occurs(K, in_query)) => Skipped(K)

\* C5 (amended): in a query of named style, every supplied key that does not
\* occur in the query text is skipped.
C5_UnusedKeySkipped ==
  (Done /\ Named /\ NamedStyle(in_query, in_params)) =>
    \A K \in KeysOf(in_params) :
      ~Occurs(K, in_query) => Skipped(K)

C5_Witness ==
  /\ Done /\ Named /\ Ok
  /\ NamedStyle(in_query, in_params)
  /\ Len(Items) >= 1
  /\ \E K \in KeysOf(in_params) :
       /\ ~Occurs(K, in_query)
       /\ Len(ItemsOf(ValueOf(in_params, K))) >= 1
       /\ Precedes(in_params, K, Items[1][1])

\* C6: a named parameter set with a key that does not start with a dollar
\* sign makes transformQuery fail with the invalid-parameter-name error naming
\* such a key, and no query or parameter list is returned; whether the key's
\* text occurs in the query or not, whatever the other keys.
C6_InvalidNameThrows ==
  (Done /\ Named /\ \E K \in KeysOf(in_params) : ~HasDollarPrefix(K)) =>
    /\ result.kind = "throw"
    /\ result.error = "InvalidParameterName"
    /\ result.key \in KeysOf(in_params)
    /\ ~HasDollarPrefix(result.key)
    /\ DOMAIN result \cap {"query", "params"} = {}

C6_Witness ==
  /\ Done /\ Named
  /\ result.kind = "throw"
  /\ Len(in_params.entries) >= 2
  /\ \E K \in KeysOf(in_params) : HasDollarPrefix(K) /\ Occurs(K, in_query)

\* C7: with params absent or already a list the result is the input query and
\* the input params, unchanged; and transformQuery applied to its own output
\* returns that output.
C7_Passthrough ==
  Done =>
    /\ in_params.kind \in {"absent", "list"} =>
         result = [kind |-> "ok", query |-> in_query, params |-> in_params]
    /\ Ok => TransformQuery(result.query, result.params) = result

C7_Witness ==
  /\ Done
  /\ in_params.kind = "list"
  /\ Len(in_params.items) >= 2
  /\ PlaceholderSeq(in_query) = <<1>>

(***************************************************************************)
(* The claims about the executor and the transactions, checked under Spec. *)
(***************************************************************************)
Completed(c) == c.outcome # Pending

WithoutClient(c) == c.op \in QueryOps /\ c.clientArg = NoClient

WithClient(c) == c.op \in QueryOps /\ c.clientArg # NoClient

TransactionEnd(c) == c.op \in {"commitTransaction", "rollbackTransaction"}

\* C8: a query function called without a client acquires at most one client
\* from the pool; it holds that client, unreleased, while its statement is
\* pending, and by the time the call completes it has released it exactly
\* once, whether the call returned, the statement failed or the transformer
\* threw; a call whose connect failed releases nothing.
C8_AcquiredHandleReleasedOnce ==
  \A p \in Procs :
    LET c == call[p]
    IN WithoutClient(c) =>
         /\ c.connects <= 1
         /\ c.releases <= c.connects
         /\ Completed(c) => c.releases = c.connects
         /\ (~Completed(c) /\ c.connects = 1) =>
              /\ c.releases = 0
              /\ c.client \in checkedOut

C8_Witness ==
  \E p, q \in Procs :
    /\ WithoutClient(call[p]) /\ WithoutClient(call[q])
    /\ call[p].outcome = Threw("InvalidParameterName")
    /\ call[p].connects = 1 /\ call[p].releases = 1
    /\ call[q].outcome = Threw(QueryError)
    /\ call[q].connects = 1 /\ call[q].releases = 1
    /\ checkedOut = {}

\* C9: a query function called with the client of an open transaction
\* acquires nothing, sends its statement on that client and does not
\* release it: the client of an open transaction stays checked out until
\* commitTransaction or rollbackTransaction releases it.
C9_SessionHandleKept ==
  \A p \in Procs :
    LET c == call[p]
    IN /\ WithClient(c) =>
            /\ c.connects = 0
            /\ c.releases = 0
            /\ c.client = c.clientArg
            /\ \A i \in DOMAIN c.dispatched : c.dispatched[i].handle = c.clientArg
            /\ session[p] = c.clientArg
       /\ session[p] # NoClient => session[p] \in checkedOut
       /\ (c.releases > 0 /\ c.clientArg # NoClient) => TransactionEnd(c)

C9_Witness ==
  \E p, q \in Procs :
    /\ WithClient(call[p])
    /\ call[p].outcome = Threw(QueryError)
    /\ Len(call[p].dispatched) = 1
    /\ WithoutClient(call[q])
    /\ call[q].releases = 1
    /\ checkedOut = {session[p]}

\* C10: a completed commitTransaction or rollbackTransaction has sent COMMIT
\* or ROLLBACK on the client it was given and has released that client
\* exactly once, whether the statement succeeded or failed.
C10_ReleasedRegardless ==
  \A p \in Procs :
    LET c == call[p]
    IN (TransactionEnd(c) /\ Completed(c)) =>
         /\ c.dispatched =
              <<Statement(c.clientArg,
                          IF c.op = "commitTransaction" THEN COMMIT ELSE ROLLBACK,
                          AbsentParams)>>
         /\ c.releases = 1

\* C11: a beginTransaction that has failed, at pool.connect() or at BEGIN,
\* has returned no session and has released every client it acquired.
C11_BeginFailureLeavesNoHandle ==
  \A p \in Procs :
    LET c == call[p]
    IN (c.op = "beginTransaction" /\ Completed(c) /\ c.outcome.kind = "threw") =>
         /\ session[p] = NoClient
         /\ c.releases = c.connects

\* C12: a query function called without a client whose pool.connect() has
\* failed throws the connect error to its caller: it has sent no statement,
\* received no reply and released nothing; and no statement is sent while
\* the connect is pending.
C12_AcquisitionFailureSurfaced ==
  \A p \in Procs :
    LET c == call[p]
    IN /\ (WithoutClient(c) /\ Completed(c) /\ c.connects = 0) =>
            /\ c.outcome = Threw(ConnectError)
            /\ c.dispatched = <<>>
            /\ c.reply = NoReply
            /\ c.releases = 0
            /\ c.client = NoClient
       /\ cpc[p] = "connecting" => (c.dispatched = <<>> /\ c.releases = 0)

C12_Witness ==
  \E p \in Procs :
    /\ WithoutClient(call[p])
    /\ call[p].outcome = Threw(ConnectError)
    /\ TransformQuery(call[p].input.query, call[p].input.params).kind = "ok"
    /\ call[p].input.params.kind = "named"
    /\ checkedOut # {}

\* C13: when the statement of a query function (queryMultiple, query,
\* querySingle, queryScalar) is rejected, the call throws the error the
\* client rejected with, the statement was sent once only, and the call has
\* not returned a value; no query call sends more than one statement.
C13_OriginalErrorNoRetry ==
  \A p \in Procs :
    LET c == call[p]
    IN c.op \in QueryOps =>
         /\ Len(c.dispatched) <= 1
         /\ c.reply.kind = "error" =>
              /\ c.outcome = Threw(c.reply.error)
              /\ c.outcome.kind # "returned"
              /\ Len(c.dispatched) = 1

C13_Witness ==
  \E p, q \in Procs :
    /\ call[p].op = "queryScalar" /\ call[q].op = "query"
    /\ WithClient(call[p]) /\ WithoutClient(call[q])
    /\ call[p].reply = ErrorReply(QueryError)
    /\ call[q].reply = ErrorReply(QueryError)
    /\ call[p].outcome = Threw(QueryError)
    /\ call[q].outcome = Threw(QueryError)

\* C14: every statement a query function has sent is the query and the
\* parameter list transformQuery returns for the call's query and
\* queryParams, sent on the call's client, whether the call acquired the
\* client or was given it; nothing is sent when transformQuery throws; a call
\* that has returned has sent its statement, and what queryMultiple returns
\* are the rows that statement resolved with.
C14_DispatchIsTransformed ==
  \A p \in Procs :
    LET c == call[p]
        t == TransformQuery(c.input.query, c.input.params)
    IN c.op \in QueryOps =>
         /\ t.kind = "throw" => c.dispatched = <<>>
         /\ \A i \in DOMAIN c.dispatched :
              /\ t.kind = "ok"
              /\ c.dispatched[i] = Statement(c.client, t.query, t.params)
         /\ c.outcome.kind = "returned" =>
              /\ Len(c.dispatched) = 1
              /\ c.reply.kind = "rows"
         /\ (c.op = "queryMultiple" /\ c.outcome.kind = "returned") =>
              c.outcome.value = [kind |-> "rows", rows |-> c.reply.rows]

C14_Witness ==
  \E p, q \in Procs :
    /\ WithClient(call[p]) /\ WithoutClient(call[q])
    /\ \A r \in {p, q} :
         /\ call[r].op = "queryMultiple"
         /\ call[r].input.params.kind = "named"
         /\ call[r].outcome.kind = "returned"
         /\ call[r].reply.rows # <<>>
         /\ call[r].dispatched[1].text = Placeholder(1)
         /\ call[r].dispatched[1].text # call[r].input.query

\* C15: a querySingle whose statement resolved has returned: the first row
\* of the rows when there is one, whatever rows follow it, and undefined when
\* there is none; it has not thrown.
C15_SingleIsFirstRow ==
  \A p \in Procs :
    LET c == call[p]
    IN (c.op = "querySingle" /\ c.reply.kind = "rows") =>
         /\ c.outcome.kind = "returned"
         /\ c.reply.rows = <<>> => c.outcome.value = Undefined
         /\ c.reply.rows # <<>> =>
              c.outcome.value = [kind |-> "row", row |-> Head(c.reply.rows)]

C15_Witness ==
  \E p, q \in Procs :
    /\ call[p].op = "querySingle" /\ call[q].op = "querySingle"
    /\ call[p].reply = RowsReply(<<>>)
    /\ call[p].outcome = Returned(Undefined)
    /\ call[q].reply.kind = "rows"
    /\ Len(call[q].reply.rows) >= 2
    /\ call[q].reply.rows[1] # call[q].reply.rows[2]
    /\ call[q].outcome.kind = "returned"

\* C16: a queryScalar whose statement resolved has returned: null when
\* there are no rows, otherwise the value of the first column of the first
\* row, in the order the row lists its columns and not in the order of their
\* names, also when that value is null.
C16_ScalarIsFirstColumn ==
  \A p \in Procs :
    LET c == call[p]
    IN (c.op = "queryScalar" /\ c.reply.kind = "rows") =>
         /\ c.outcome.kind = "returned"
         /\ c.reply.rows = <<>> => c.outcome.value = Null
         /\ (c.reply.rows # <<>> /\ Head(c.reply.rows) # <<>>) =>
              c.outcome.value = [kind |-> "value", val |-> Head(Head(c.reply.rows)).val]

C16_Witness ==
  \E p, q \in Procs :
    /\ call[p].op = "queryScalar" /\ call[q].op = "queryScalar"
    /\ call[p].reply = RowsReply(<<>>)
    /\ call[p].outcome = Returned(Null)
    /\ call[q].reply.kind = "rows"
    /\ call[q].reply.rows # <<>>
    /\ call[q].outcome = Returned([kind |-> "value", val |-> "null"])
    /\ Head(call[q].reply.rows)[1].col = "zip"
    /\ Head(call[q].reply.rows)[2].col = "name"

\* C17: when the statement a query function sent on the client of an open
\* transaction is rejected, the call has sent that one statement and
\* nothing else (no ROLLBACK, no COMMIT), it has not released the client, and
\* the caller's transaction still holds the client, checked out.
C17_NoImplicitRollback ==
  \A p \in Procs :
    LET c == call[p]
    IN (WithClient(c) /\ c.reply.kind = "error") =>
         /\ Len(c.dispatched) = 1
         /\ \A i \in DOMAIN c.dispatched : c.dispatched[i].text \notin {ROLLBACK, COMMIT}
         /\ c.releases = 0
         /\ session[p] = c.clientArg
         /\ c.clientArg \in checkedOut

C17_Witness ==
  \E p \in Procs :
    /\ WithClient(call[p])
    /\ call[p].op = "query"
    /\ call[p].reply = ErrorReply(QueryError)
    /\ call[p].input.params.kind = "named"
    /\ cpc[p] = "idle"
    /\ session[p] \in checkedOut
    /\ nops = MaxOps

(***************************************************************************)
(* The claim about the logger, checked under SpecLogger.                   *)
(***************************************************************************)
\* rank of a logger method: log (DEBUG) 1, info 2, warn 3, error 4
MethodRank(method) ==
  CASE method = "log" -> 1
    [] method = "info" -> 2
    [] method = "warn" -> 3
    [] method = "error" -> 4

\* rank of the configured level; a value that is no level, or no value, is
\* SILENT
ConfiguredRank(v) ==
  CASE v = "DEBUG" -> 1
    [] v = "INFO" -> 2
    [] v = "WARN" -> 3
    [] v = "ERROR" -> 4
    [] OTHER -> 5

\* C18: a logger call passes its arguments to the console method of its
\* name exactly when the rank of the method is at least the rank of the
\* level the variable holds when the call is made; otherwise, and with the
\* variable unset or holding no level, the console is left as it was.
C18_LoggerLevels ==
  LET l == lastLog
  IN console =
       IF MethodRank(l.method) >= ConfiguredRank(l.env)
       THEN Append(l.before, [method |-> l.method, args |-> l.args])
       ELSE l.before

\* a message was emitted at one level, the variable then changed to a value
\* that is no level, and the next message, an error, was not emitted
C18_Witness ==
  /\ Len(lastLog.before) = 1
  /\ lastLog.before[1].method = "log"
  /\ lastLog.method = "error"
  /\ lastLog.env = "debug"
  /\ lastLog.args = <<"msg", "detail">>
  /\ console = lastLog.before

(***************************************************************************)
(* The claim about ended transactions, checked under SpecReuse.            *)
(***************************************************************************)
\* C19: a call that is passed the client of a transaction already committed
\* or rolled back is rejected: it sends no statement on the client, it does
\* not release the client again, and it does not return.
C19_EndedSessionRejected ==
  \A p \in Procs :
    LET c == call[p]
    IN c.ended =>
         /\ c.dispatched = <<>>
         /\ c.releases = 0
         /\ Completed(c) => c.outcome.kind = "threw"

(***************************************************************************)
(* The claim about the order of the name check and the pool, checked       *)
(* under Spec.                                                             *)
(***************************************************************************)
\* C20: a query function called with a named parameter set holding a key
\* without the dollar sign acquires no client from the pool and sends no
\* statement, and what it throws is the invalid-parameter-name error.
C20_InvalidNameBeforeDatabase ==
  \A p \in Procs :
    LET c == call[p]
    IN (c.op \in QueryOps
        /\ c.input.params.kind = "named"
        /\ \E K \in KeysOf(c.input.params) : ~HasDollarPrefix(K)) =>
         /\ c.connects = 0
         /\ c.dispatched = <<>>
         /\ Completed(c) => c.outcome = Threw("InvalidParameterName")

(***************************************************************************)
(* The claim about literal matching, checked under SpecPattern.            *)
(***************************************************************************)
\* C21: transformQuery treats each key as a fixed string: a key whose text
\* does not occur in the query changes nothing and its value is not in the
\* returned list, and a key whose text occurs has each of those occurrences,
\* and nothing else, replaced by its placeholder text.
C21_LiteralMatch ==
  (Done /\ Named /\ Ok) =>
    \A K \in KeysOf(in_params) :
      /\ ~Occurs(K, in_query) => (Skipped(K) /\ result.query = in_query)
      /\ Occurs(K, in_query) =>
           result.query = OnePassFrom(in_query, in_params, Items, 1)

\* the handle a caller's in-flight query call acquired itself and still holds
CallHandles(p) ==
  IF cpc[p] = "querying" /\ call[p].isClientCreatedHere THEN {call[p].client} ELSE {}

\* the handle of a caller's open session: from the connect of beginTransaction
\* to the release of commitTransaction / rollbackTransaction
SessionHandles(p) ==
  IF cpc[p] = "begin_query" THEN {call[p].client}
  ELSE IF session[p] # NoClient THEN {session[p]}
  ELSE {}

HeldBy(p) == CallHandles(p) \cup SessionHandles(p)

AllFinished == \A p \in Procs : cpc[p] = "idle" /\ session[p] = NoClient

\* the handles pool.connect() hands out in a step
AcquiredNow ==
  {call'[p].client : p \in {q \in Procs : /\ cpc[q] \in {"connecting", "begin_connecting"}
                                          /\ call'[q].connects = call[q].connects + 1}}

\* the handles release() is called on in a step
ReleasedNow ==
  {call'[p].client : p \in {q \in Procs : /\ cpc[q] # "idle"
                                          /\ call'[q].releases = call[q].releases + 1}}

C22_Accounting ==
  /\ Cardinality(checkedOut) =
       Cardinality({p \in Procs : CallHandles(p) # {}})
         + Cardinality({p \in Procs : SessionHandles(p) # {}})
  /\ checkedOut = UNION {HeldBy(p) : p \in Procs}
  /\ \A p \in Procs : CallHandles(p) \cap SessionHandles(p) = {}
  /\ \A p, q \in Procs : p # q => HeldBy(p) \cap HeldBy(q) = {}
  /\ AllFinished => checkedOut = {}

C22_ReleaseStep ==
  /\ AcquiredNow \cap checkedOut = {}
  /\ ReleasedNow \subseteq checkedOut \cup AcquiredNow
  /\ checkedOut' = (checkedOut \cup AcquiredNow) \ ReleasedNow
  /\ \A p \in Procs : (cpc[p] = "idle" /\ cpc'[p] # "idle") =>
       (call'[p].connects = 0 /\ call'[p].releases = 0)
  /\ \A p \in Procs : call'[p].releases <= 1

\* C22: with callers whose transactions are well formed, in every reachable
\* state the handles checked out of the pool are exactly those held by an
\* in-flight query call that acquired its own plus those of the open sessions,
\* one handle each and no handle held twice; every step releases only handles
\* that are checked out and takes only free ones, so releases never exceed
\* acquisitions; and when every caller has finished nothing is checked out.
C22_PoolAccounting == []C22_Accounting /\ [][C22_ReleaseStep]_vars

\* c1 has a query in flight on its session's handle while c2 has a query in
\* flight on a handle it acquired itself
C22_Witness ==
  /\ session["c1"] # NoClient /\ cpc["c1"] = "querying"
  /\ call["c1"].client = session["c1"] /\ ~call["c1"].isClientCreatedHere
  /\ cpc["c2"] = "querying" /\ call["c2"].isClientCreatedHere
  /\ checkedOut = {session["c1"], call["c2"].client}
  /\ Cardinality(checkedOut) = 2

====
